---- MODULE Spec2Model ----
(***************************************************************************)
(* Model of scraping_gojek.py: the paginated fetch loop of                 *)
(* scrape_gojek_reviews, the column normalisation that follows it, and     *)
(* the column de-duplication and two-format persistence of main.           *)
(*                                                                         *)
(* The review source (google_play_scraper.reviews) is the environment: a   *)
(* call either raises or returns a batch of any length together with any   *)
(* cursor.  The code does not check what it gets back, so neither does     *)
(* the model.  Records are identified by their position in the feed.       *)
(***************************************************************************)
EXTENDS Integers, Sequences, FiniteSets, TLC

\* ---------------------------------------------------------------- constants
\* min(100, ...) at line 44
BatchLimit == 100
\* review_count at line 102
review_count == 5000

\* ------------------------------------------------------------------- bounds
\* The feed holds at most BatchLimit + MaxExtra records.
MaxExtra == 3
\* Calls to the source are counted up to MaxCalls ("MaxCalls or more").
MaxCalls == 4

MaxFeed == BatchLimit + MaxExtra

\* continuation_token = None
None == "None"
Tokens == {"t1", "t2"}

\* Values of count tried when scrape_gojek_reviews is called directly.
Targets == {1, 2, BatchLimit, BatchLimit + 1, BatchLimit + MaxExtra - 1}

VARIABLES
    entry,              \* "main": run through main; "call": scrape_gojek_reviews called directly
    count,              \* parameter count of scrape_gojek_reviews
    all_reviews,        \* the accumulator (line 36)
    continuation_token, \* the pagination cursor (line 39)
    batch_size,         \* line 44
    pc,                 \* position in the code
    cols,               \* df.columns / df_reviews.columns
    failure,            \* main's outer handler ran (line 175)
    writes,             \* the write attempts of main, in order: <<format, outcome>>
    \* what the source saw and did
    delivered,          \* concatenation of every batch the source returned
    calls,              \* number of calls issued, counted up to MaxCalls
    passed,             \* cursor handed to the most recent call
    returned,           \* cursor returned by the most recent successful call
    raised,             \* the source raised
    lastSlept,          \* time.sleep(2) ran after the most recent successful batch
    withinSize,         \* every batch so far had at most batch_size records
    fullBatches,        \* every batch so far that came with a cursor had at least batch_size records
    nonEmpty            \* every batch so far that came with a cursor had at least one record

vars == <<entry, count, all_reviews, continuation_token, batch_size, pc, cols,
          failure, writes, delivered, calls, passed, returned, raised,
          lastSlept, withinSize, fullBatches, nonEmpty>>

progVars == <<entry, count, all_reviews, continuation_token, batch_size, cols,
              failure, writes>>
srcVars == <<delivered, calls, passed, returned, raised, lastSlept,
             withinSize, fullBatches, nonEmpty>>

\* ------------------------------------------------------------------ helpers
Min(a, b) == IF a < b THEN a ELSE b

Range(s) == {s[i] : i \in 1..Len(s)}

CeilDiv(a, b) == (a + b - 1) \div b

Bump(n) == IF n < MaxCalls THEN n + 1 ELSE n

\* ------------------------------------------------- scrape_gojek_reviews loop
\* Mutants of the loop test: one extra iteration; one iteration too few.
LoopContinuesInclusive(n, c) == n <= c

LoopContinuesEarlyExit(n, c) == n + 1 < c

\* while len(all_reviews) < count
LoopContinues(n, c) == n < c

\* batch_size = min(100, count - len(all_reviews))
BatchSize(c, n) == Min(BatchLimit, c - n)

\* Mutant of the accumulation: the batch replaces the accumulator.
ExtendReplacing(acc, result) == result

\* all_reviews.extend(result)
Extend(acc, result) == acc \o result

\* Mutant of the call: the cursor is not handed on.
PassedCursorReset(tok) == None

\* continuation_token=continuation_token in the call
PassedCursor(tok) == tok

\* The lengths a returned batch may have: empty, short, exactly as asked,
\* one more than asked; never more than the feed still holds.
BatchLens(bs, left) == {k \in {0, 1, bs, bs + 1} : k >= 0 /\ k <= left}

Init ==
    /\ entry \in {"main", "call"}
    /\ count \in IF entry = "main" THEN {review_count} ELSE Targets
    /\ all_reviews = <<>>
    /\ continuation_token = None
    /\ batch_size = 0
    /\ pc = "while"
    /\ cols = <<>>
    /\ failure = FALSE
    /\ writes = <<>>
    /\ delivered = <<>>
    /\ calls = 0
    /\ passed = None
    /\ returned = None
    /\ raised = FALSE
    /\ lastSlept = FALSE
    /\ withinSize = TRUE
    /\ fullBatches = TRUE
    /\ nonEmpty = TRUE

\* line 42
WhileTest ==
    /\ pc = "while"
    /\ pc' = IF LoopContinues(Len(all_reviews), count) THEN "batch" ELSE "frame"
    /\ UNCHANGED <<progVars, srcVars>>

\* line 44
ComputeBatch ==
    /\ pc = "batch"
    /\ batch_size' = BatchSize(count, Len(all_reviews))
    /\ pc' = "request"
    /\ UNCHANGED <<entry, count, all_reviews, continuation_token, cols, failure,
                   writes, srcVars>>

\* lines 48-69: the call returns; extend, progress, cursor test
RequestOk ==
    /\ pc = "request"
    /\ \E n \in BatchLens(batch_size, MaxFeed - Len(delivered)),
          tok \in Tokens \cup {None} :
          LET result == [i \in 1..n |-> Len(delivered) + i] IN
          /\ all_reviews' = Extend(all_reviews, result)
          /\ continuation_token' = tok
          /\ delivered' = delivered \o result
          /\ passed' = PassedCursor(continuation_token)
          /\ returned' = tok
          /\ withinSize' = (withinSize /\ n <= batch_size)
          /\ fullBatches' = (fullBatches /\ (tok = None \/ n >= batch_size))
          /\ nonEmpty' = (nonEmpty /\ (tok = None \/ n >= 1))
          /\ pc' = IF tok = None THEN "frame" ELSE "sleep"
    /\ calls' = Bump(calls)
    /\ lastSlept' = FALSE
    /\ UNCHANGED <<entry, count, batch_size, cols, failure, writes, raised>>

\* lines 48, 71-73: the call raises; nothing is assigned, break
RequestRaise ==
    /\ pc = "request"
    /\ passed' = PassedCursor(continuation_token)
    /\ calls' = Bump(calls)
    /\ raised' = TRUE
    /\ pc' = "frame"
    /\ UNCHANGED <<progVars, delivered, returned, lastSlept, withinSize,
                   fullBatches, nonEmpty>>

\* line 69
Sleep ==
    /\ pc = "sleep"
    /\ lastSlept' = TRUE
    /\ pc' = "while"
    /\ UNCHANGED <<progVars, delivered, calls, passed, returned, raised,
                   withinSize, fullBatches, nonEmpty>>

\* ------------------------------------------- scrape_gojek_reviews, lines 76-98
\* The key lists the records of a feed may carry (fields are optional and the
\* source decides them); pd.DataFrame(all_reviews) takes its columns from them.
KeyLists ==
    { <<"content", "score">>,
      <<"content", "thumbsUpCount">>,
      <<"score", "reviewCreatedVersion", "appVersion">>,
      <<"score", "reviewCreatedVersion", "appVersion", "appVersion_1">>,
      <<"score", "appVersion_1", "appVersion", "reviewCreatedVersion">>,
      <<"score", "at">>,
      <<"score", "at", "reviewDate">> }

\* column_mapping, lines 79-87
ColumnMapping(k) ==
    CASE k = "reviewCreatedVersion" -> "appVersion"
      [] k = "at" -> "reviewDate"
      [] OTHER -> k

\* df.rename(columns=valid_columns), lines 90-91
RenameColumns(keys) == [i \in 1..Len(keys) |-> ColumnMapping(keys[i])]

Occurrences(s, x) == Cardinality({i \in 1..Len(s) : s[i] = x})

\* Where an exception that leaves scrape_gojek_reviews ends up.
Propagate == IF entry = "main" THEN "except" ELSE "raised"

\* lines 76-91: an empty list gives a frame without columns
BuildFrame ==
    /\ pc = "frame"
    /\ \E keys \in KeyLists :
          cols' = IF all_reviews = <<>> THEN <<>> ELSE RenameColumns(keys)
    /\ pc' = "date"
    /\ UNCHANGED <<entry, count, all_reviews, continuation_token, batch_size,
                   failure, writes, srcVars>>

\* lines 94-95: with two columns named reviewDate, df['reviewDate'] is a frame
\* and pd.to_datetime raises
ConvertDate ==
    /\ pc = "date"
    /\ pc' = IF Occurrences(cols, "reviewDate") > 1 THEN Propagate ELSE "return"
    /\ UNCHANGED <<progVars, srcVars>>

\* lines 97-98
Return ==
    /\ pc = "return"
    /\ pc' = IF entry = "main" THEN "dedup" ELSE "returned"
    /\ UNCHANGED <<progVars, srcVars>>

\* ------------------------------------------------------------------- main
\* f"{col}_{seen[col]}"
Suffixed(col, k) == col \o "_" \o ToString(k)

\* lines 111-119: the loop over cols from position i on
RECURSIVE RenameDuplicates(_, _, _, _)
RenameDuplicates(cs, i, seen, new_cols) ==
    IF i > Len(cs) THEN new_cols
    ELSE LET col == cs[i] IN
         IF col \in DOMAIN seen
         THEN LET seen2 == [seen EXCEPT ![col] = @ + 1] IN
              RenameDuplicates(cs, i + 1, seen2,
                               Append(new_cols, Suffixed(col, seen2[col])))
         ELSE LET seen2 == [x \in DOMAIN seen \cup {col} |->
                               IF x = col THEN 0 ELSE seen[x]] IN
              RenameDuplicates(cs, i + 1, seen2, Append(new_cols, col))

\* lines 108-120
DedupColumns(cs) ==
    IF Len(cs) # Cardinality(Range(cs))
    THEN RenameDuplicates(cs, 1, << >>, << >>)
    ELSE cs

Dedup ==
    /\ pc = "dedup"
    /\ cols' = DedupColumns(cols)
    /\ pc' = "summary"
    /\ UNCHANGED <<entry, count, all_reviews, continuation_token, batch_size,
                   failure, writes, srcVars>>

\* lines 123-134: df_reviews['score'] raises KeyError without that column
Summary ==
    /\ pc = "summary"
    /\ pc' = IF "score" \in Range(cols) THEN "csv" ELSE "except"
    /\ UNCHANGED <<progVars, srcVars>>

Attempt(fmt, outcome) == Append(writes, <<fmt, outcome>>)

\* lines 137-150
CsvWriteOk ==
    /\ pc = "csv"
    /\ writes' = Attempt("csv", "ok")
    /\ pc' = "json"
    /\ UNCHANGED <<entry, count, all_reviews, continuation_token, batch_size,
                   cols, failure, srcVars>>

\* Mutant of the delimited-text handler: the failure reaches main's outer handler.
CsvWriteFailUncaught ==
    /\ pc = "csv"
    /\ writes' = Attempt("csv", "failed")
    /\ pc' = "except"
    /\ UNCHANGED <<entry, count, all_reviews, continuation_token, batch_size,
                   cols, failure, srcVars>>

\* lines 138-152: the write raises, the handler reports it
CsvWriteFail ==
    /\ pc = "csv"
    /\ writes' = Attempt("csv", "failed")
    /\ pc' = "json"
    /\ UNCHANGED <<entry, count, all_reviews, continuation_token, batch_size,
                   cols, failure, srcVars>>

\* lines 155-162
JsonWriteOk ==
    /\ pc = "json"
    /\ writes' = Attempt("json", "ok")
    /\ pc' = "done"
    /\ UNCHANGED <<entry, count, all_reviews, continuation_token, batch_size,
                   cols, failure, srcVars>>

\* lines 156-164: the write raises, the handler goes on to the fallback
JsonWriteFail ==
    /\ pc = "json"
    /\ writes' = Attempt("json", "failed")
    /\ pc' = "fallback"
    /\ UNCHANGED <<entry, count, all_reviews, continuation_token, batch_size,
                   cols, failure, srcVars>>

\* lines 167-171
FallbackOk ==
    /\ pc = "fallback"
    /\ writes' = Attempt("jsonl", "ok")
    /\ pc' = "done"
    /\ UNCHANGED <<entry, count, all_reviews, continuation_token, batch_size,
                   cols, failure, srcVars>>

\* lines 167-173
FallbackFail ==
    /\ pc = "fallback"
    /\ writes' = Attempt("jsonl", "failed")
    /\ pc' = "done"
    /\ UNCHANGED <<entry, count, all_reviews, continuation_token, batch_size,
                   cols, failure, srcVars>>

\* lines 175-176
MainExcept ==
    /\ pc = "except"
    /\ failure' = TRUE
    /\ pc' = "done"
    /\ UNCHANGED <<entry, count, all_reviews, continuation_token, batch_size,
                   cols, writes, srcVars>>

Next ==
    \/ WhileTest
    \/ ComputeBatch
    \/ RequestOk
    \/ RequestRaise
    \/ Sleep
    \/ BuildFrame
    \/ ConvertDate
    \/ Return
    \/ Dedup
    \/ Summary
    \/ CsvWriteOk
    \/ CsvWriteFail
    \/ JsonWriteOk
    \/ JsonWriteFail
    \/ FallbackOk
    \/ FallbackFail
    \/ MainExcept

Spec == Init /\ [][Next]_vars

\* The program keeps running while it has a step to take.
SpecFair == Spec /\ WF_vars(Next)


\* ------------------------------------------------------------------ claims
LoopPcs == {"while", "batch", "request", "sleep"}

LoopEnded == pc \notin LoopPcs

Attempts(fmt) == {i \in 1..Len(writes) : writes[i][1] = fmt}

Failed(fmt) == \E i \in 1..Len(writes) : writes[i] = <<fmt, "failed">>

\* C1 as stated: whatever the source returns, the accumulator never holds
\* more than count records, and every request asks for
\* min(100, count - accumulated) records.
C1_NeverExceedsTarget ==
    /\ Len(all_reviews) <= count
    /\ pc = "request" => batch_size = Min(BatchLimit, count - Len(all_reviews))

\* The bound of C1 does hold for as long as the source never returns more
\* records than the request asked for: nothing else in the loop can overshoot.
WithinSizeNeverExceeds == withinSize => Len(all_reviews) <= count

\* C2 as stated: whatever the source returns, the loop issues at most
\* ceil(count / 100) calls.
C2_AtMostCeilCalls == calls <= CeilDiv(count, BatchLimit)

\* C2 amended: the loop issues at most ceil(count / 100) calls provided every
\* batch that comes with a cursor holds at least the batch size asked for.
C2_AtMostCeilCallsFullBatches ==
    fullBatches => calls <= CeilDiv(count, BatchLimit)

C2_Witness ==
    /\ fullBatches
    /\ count = BatchLimit + 1
    /\ calls = 2
    /\ LoopEnded
    /\ Len(all_reviews) = count

\* C3: once the source has raised, the loop is over (no further call) and
\* the accumulator is the concatenation, in order, of the batches returned
\* by the calls before it.
C3_PartialResultKept ==
    raised => LoopEnded /\ all_reviews = delivered

C3_Witness ==
    /\ raised
    /\ calls = 3
    /\ Len(all_reviews) = BatchLimit + 1

\* C4 as stated: no delay follows the last batch of a run that ended without
\* an error, and a delay precedes every call but the first.
C4_DelayExactlyBetweenBatches ==
    /\ (LoopEnded /\ ~raised) => ~lastSlept
    /\ (pc = "request" /\ calls > 0) => lastSlept

\* C5 as stated: after the de-duplication step of main the column list holds
\* no name twice.
C5_NoDuplicateColumns ==
    pc = "summary" => Len(cols) = Cardinality(Range(cols))

\* C6 as stated: when the source raised, the run still ends with both the
\* delimited-text write and the structured-tree write attempted.
C6_FetchErrorReachesPersistence ==
    (raised /\ pc = "done") =>
        /\ ~failure
        /\ Attempts("csv") # {}
        /\ Attempts("json") # {}

\* C7: once persistence has started the run never reaches main's outer
\* handler; a delimited-text attempt is always followed by a structured-tree
\* attempt; the line-per-record fallback is attempted at most once, only
\* after the structured-tree write failed, and always then.
C7_PersistenceFailuresIndependent ==
    /\ writes # <<>> => ~failure /\ pc \in {"json", "fallback", "done"}
    /\ \A fmt \in {"csv", "json", "jsonl"} : Cardinality(Attempts(fmt)) <= 1
    /\ (pc \in {"fallback", "done"} /\ Attempts("csv") # {}) => Attempts("json") # {}
    /\ Attempts("jsonl") # {} => Failed("json")
    /\ (pc = "done" /\ Failed("json")) => Cardinality(Attempts("jsonl")) = 1

C7_Witness ==
    /\ pc = "done"
    /\ ~failure
    /\ writes = << <<"csv", "failed">>, <<"json", "failed">>, <<"jsonl", "failed">> >>

\* C8: every call is handed the cursor the previous successful call returned
\* (None on the first call), and the loop's cursor is always that cursor.
C8_CursorThreaded ==
    [][ /\ (pc = "request" /\ pc' # "request") => passed' = returned
        /\ continuation_token' = returned' ]_vars

C8_Witness ==
    /\ calls >= 2
    /\ passed = "t1"
    /\ returned = "t2"

\* C9 as stated: applying the de-duplication step to its own output gives
\* that output again.
C9_DedupIdempotent ==
    pc = "summary" => DedupColumns(cols) = cols

\* C10 as stated: the fetch loop always terminates.
C10_AlwaysTerminates == <>LoopEnded

\* C10 amended: the loop stops only because the accumulator reached count,
\* the cursor came back None or the source raised; and when every batch that
\* comes with a cursor holds at least one record it issues at most count
\* calls (checked for the counts the call counter can tell apart).
C10_StopReasonsAndBoundedCalls ==
    /\ LoopEnded =>
          \/ Len(all_reviews) >= count
          \/ continuation_token = None
          \/ raised
    /\ (nonEmpty /\ count < MaxCalls) => calls <= count

C10_Witness ==
    /\ nonEmpty
    /\ LoopEnded
    /\ ~raised
    /\ continuation_token # None
    /\ count = 2
    /\ calls = 2

====
